---- MODULE Spec2Model ----
(***************************************************************************)
(* Model of disc_golf_simulator.py: the Streamlit script main(), run once  *)
(* per interaction.  Slider values are integers in tenths (the sliders'    *)
(* step is 0.1); trajectory coordinates are integers in thousandths of a   *)
(* metre.  The physics collaborator (shotshaper's DiscGolfDisc) is a black *)
(* box: the variable physics records the answer it gave for each input it  *)
(* was asked, and it gives the same answer when asked again.               *)
(***************************************************************************)
EXTENDS Integers, Sequences, FiniteSets, TLC

VARIABLES
    disc_selected,  \* selectbox "Disc Selection": the display name chosen
    sliders,        \* the six slider widgets' current values (tenths)
    pc,             \* position of the script run; "idle" between runs
    requests,       \* number of script runs started so far
    active,         \* number of script runs in progress
    disc_name,      \* local disc_name of the run
    args,           \* locals nose, roll, U, omega, z0, pitch of the run
    pos,            \* local pos, the release position
    meshes,         \* heap of mesh objects: one per entry of stl_meshes, and the copy
    stl_mesh,       \* local stl_mesh: the mesh object the preview transforms
    shot,           \* local shot.position: the arrays x, y, z
    sample,         \* x_new, y_new, z as handed to get_plot
    summary,        \* the four values of the metric table
    produced,       \* TRUE once the metric table of this run is written
    status,         \* "running", "ok" or "failed": how the run ended
    raised,         \* the exception that ended the run, "none" if none
    calls,          \* physics-collaborator invocations of this run, in order
    steps,          \* the steps this run has taken, in order
    physics,        \* answers the physics collaborator has given, per shoot input
    results         \* first (sample, summary) the script produced, per shoot input

vars == <<disc_selected, sliders, pc, requests, active, disc_name, args, pos,
          meshes, stl_mesh, shot, sample, summary, produced, status, raised,
          calls, steps, physics, results>>

----------------------------------------------------------------------------
\* Bounds of the model.

\* Script runs per behaviour (the first run on page load included).
MaxRequests == 3
\* Longest trajectory the pure summary pipeline is checked on.
MaxLen == 2

\* Coordinate values (thousandths of a metre) the checked trajectories use:
\* values that round down, round up and stay, of both signs after the remap.
Coords == {-14, 0, 4, 6}

----------------------------------------------------------------------------
\* Module-level defaults, in tenths.

default_U == 242
default_omega == 1168
default_z0 == 13
default_pitch == 155
default_nose == 0
default_roll == 147

disc_names_typo ==
    [n \in {"Innova Wraith", "Innova Firebird", "Innova Roadrunner",
            "Innova Fairway Driver"} |->
        CASE n = "Innova Wraith" -> "dd2"
          [] n = "Innova Firebird" -> "cd1"
          [] n = "Innova Roadrunner" -> "cd1"
          [] n = "Innova Fairway Driver" -> "fd2"]

\* The dict disc_names: display name -> disc-model identifier.
disc_names ==
    [n \in {"Innova Wraith", "Innova Firebird", "Innova Roadrunner",
            "Innova Fairway Driver"} |->
        CASE n = "Innova Wraith" -> "dd2"
          [] n = "Innova Firebird" -> "cd1"
          [] n = "Innova Roadrunner" -> "cd5"
          [] n = "Innova Fairway Driver" -> "fd2"]

\* The options the selectbox offers: disc_names.keys(); the first is preselected.
DiscOptions == DOMAIN disc_names
DefaultDisc == "Innova Wraith"

\* The identifiers the collaborators know (DiscGolfDisc's models, stl_meshes' keys).
Catalog == {"dd2", "cd1", "cd5", "fd2"}

SliderNames == {"nose", "roll", "U", "omega", "z0", "pitch"}

min_value(s) ==
    CASE s = "nose" -> -450
      [] s = "roll" -> -900
      [] s = "U" -> 0
      [] s = "omega" -> 0
      [] s = "z0" -> 0
      [] s = "pitch" -> 0

max_value_wrong(s) ==
    CASE s = "nose" -> 900
      [] s = "roll" -> 900
      [] s = "U" -> 400
      [] s = "omega" -> 2000
      [] s = "z0" -> 200
      [] s = "pitch" -> 900

max_value(s) ==
    CASE s = "nose" -> 900
      [] s = "roll" -> 900
      [] s = "U" -> 400
      [] s = "omega" -> 2000
      [] s = "z0" -> 20
      [] s = "pitch" -> 900

\* The value= argument of each slider.
value(s) ==
    CASE s = "nose" -> default_nose
      [] s = "roll" -> default_roll
      [] s = "U" -> default_U
      [] s = "omega" -> default_omega
      [] s = "z0" -> default_z0
      [] s = "pitch" -> default_pitch

\* Positions a user may try to drag a slider to, the ends overshot by one step.
RawValues(s) ==
    {min_value(s) - 1, min_value(s), value(s), max_value(s), max_value(s) + 1}

\* A slider only takes values of its own closed range.
SliderAccepts(s, v) == min_value(s) <= v /\ v <= max_value(s)

\* Moving one slider: only that widget's value changes.
SetSlider(cur, s, v) == [cur EXCEPT ![s] = v]

----------------------------------------------------------------------------
\* Values.

NoArgs == [s \in SliderNames |-> 0]
NoShot == [x |-> <<>>, y |-> <<>>, z |-> <<>>]
NoSummary == [drift_left |-> 0, drift_right |-> 0, max_height |-> 0, distance |-> 0]
PristineMesh == [nose |-> 0, roll |-> 0]
MeshRefs == Catalog \cup {"copy"}

\* Every trajectory of 1..MaxLen points over Coords, as the arrays x, y, z.
Trajectories ==
    UNION {[x : [1..n -> Coords], y : [1..n -> Coords], z : [1..n -> Coords]] :
           n \in 1..MaxLen}

\* The flights the collaborator answers with in the application runs.
Flights ==
    {[x |-> <<0, 6>>, y |-> <<4, -14>>, z |-> <<6, 0>>],
     [x |-> <<4>>, y |-> <<0>>, z |-> <<4>>]}

ShootErrors == {"ValueError"}
Outcomes ==
    [ok : {TRUE}, position : Flights, err : {"none"}]
        \cup [ok : {FALSE}, position : {NoShot}, err : ShootErrors]

----------------------------------------------------------------------------
\* Python and numpy helpers.

\* -1 * y on an array: elementwise.
Neg(a) == [i \in DOMAIN a |-> -1 * a[i]]

RECURSIVE min(_)
min(a) ==
    IF Len(a) = 1 THEN a[1]
    ELSE LET m == min(Tail(a)) IN IF a[1] <= m THEN a[1] ELSE m

RECURSIVE max(_)
max(a) ==
    IF Len(a) = 1 THEN a[1]
    ELSE LET m == max(Tail(a)) IN IF a[1] >= m THEN a[1] ELSE m

truncate(v, ndigits) ==
    LET q == IF ndigits = 2 THEN 10 ELSE 1
    IN  (v \div q) * q

\* round(v, ndigits) of a value in thousandths: to the nearest multiple of
\* 10^(3 - ndigits), a tie to the even multiple.
round(v, ndigits) ==
    LET q == IF ndigits = 2 THEN 10 ELSE 1
        lo == v \div q
        r == v % q
    IN  IF 2 * r < q THEN lo * q
        ELSE IF 2 * r > q THEN (lo + 1) * q
        ELSE IF lo % 2 = 0 THEN lo * q ELSE (lo + 1) * q

AxisRemapMirrored(x, y) == <<y, x>>

\* x_new, y_new = -1 * y, x
AxisRemap(x, y) == <<Neg(y), x>>

FlightSummaryTruncated(x_new, y_new, z) ==
    [drift_left |-> truncate(min(x_new), 2), drift_right |-> truncate(max(x_new), 2),
     max_height |-> truncate(max(z), 2), distance |-> truncate(max(y_new), 2)]

FlightSummarySwapped(x_new, y_new, z) ==
    [drift_left |-> round(max(x_new), 2), drift_right |-> round(min(x_new), 2),
     max_height |-> round(max(z), 2), distance |-> round(max(y_new), 2)]

\* The four rows of the metric table.
FlightSummary(x_new, y_new, z) ==
    [drift_left |-> round(min(x_new), 2), drift_right |-> round(max(x_new), 2),
     max_height |-> round(max(z), 2), distance |-> round(max(y_new), 2)]

alias(ref) == ref

\* deepcopy(stl_meshes[disc_name]): a fresh object, distinct from the cached one.
deepcopy(ref) == "copy"

\* visualize_disc turns the mesh it is given, in place.
rotate(mesh, nose, roll) == [nose |-> mesh.nose + nose, roll |-> mesh.roll + roll]

\* pos = np.array((0, 0, z0))
ReleasePosition(z0) == <<0, 0, z0>>

ShootArgsSwapped(a, p) == <<a["U"], a["omega"], a["pitch"], p, a["roll"], a["nose"]>>

\* The arguments of shoot: speed, omega, pitch, position, nose_angle, roll_angle.
ShootArgs(a, p) == <<a["U"], a["omega"], a["pitch"], p, a["nose"], a["roll"]>>

\* The input of a shoot invocation: the disc of the model it is invoked on, and
\* its arguments.
ShootKey(d, a, p) == <<d, ShootArgs(a, p)>>

Call(op, d, a) == [op |-> op, disc |-> d, args |-> a]

----------------------------------------------------------------------------
\* The state when the page is first loaded: the first run is about to start.
Init ==
    /\ disc_selected = DefaultDisc
    /\ sliders = [s \in SliderNames |-> value(s)]
    /\ pc = "collect"
    /\ requests = 1
    /\ active = 1
    /\ disc_name = "none"
    /\ args = NoArgs
    /\ pos = <<0, 0, 0>>
    /\ meshes = [r \in MeshRefs |-> PristineMesh]
    /\ stl_mesh = "none"
    /\ shot = NoShot
    /\ sample = NoShot
    /\ summary = NoSummary
    /\ produced = FALSE
    /\ status = "running"
    /\ raised = "none"
    /\ calls = <<>>
    /\ steps = <<>>
    /\ physics = <<>>
    /\ results = <<>>

run_vars == <<disc_name, args, pos, meshes, stl_mesh, shot, sample, summary,
              produced, raised, calls, steps, physics, results>>

\* A run of the script starts: one more run, now in progress.
StartRun ==
    /\ pc' = "collect"
    /\ requests' = requests + 1
    /\ active' = active + 1
    /\ status' = "running"

\* The user moves one slider; the script is rerun.
SliderChange ==
    /\ pc = "idle"
    /\ requests < MaxRequests
    /\ \E s \in SliderNames : \E v \in RawValues(s) :
        /\ SliderAccepts(s, v)
        /\ v # sliders[s]
        /\ sliders' = SetSlider(sliders, s, v)
    /\ StartRun
    /\ UNCHANGED <<disc_selected, run_vars>>

\* The user picks another disc; the script is rerun.
DiscChange ==
    /\ pc = "idle"
    /\ requests < MaxRequests
    /\ \E n \in DiscOptions :
        /\ n # disc_selected
        /\ disc_selected' = n
    /\ StartRun
    /\ UNCHANGED <<sliders, run_vars>>

\* Lines 45-79: the widgets are read into the run's locals.
Collect ==
    /\ pc = "collect"
    /\ disc_name' = disc_names[disc_selected]
    /\ args' = sliders
    /\ stl_mesh' = "none"
    /\ shot' = NoShot
    /\ sample' = NoShot
    /\ produced' = FALSE
    /\ raised' = "none"
    /\ calls' = <<>>
    /\ steps' = <<>>
    /\ pc' = "orient"
    /\ UNCHANGED <<disc_selected, sliders, requests, active, pos, meshes, summary,
                   status, physics, results>>

\* The run ends with an exception.
Fail(e) ==
    /\ raised' = e
    /\ status' = "failed"
    /\ pc' = "idle"
    /\ active' = active - 1

\* Lines 81-92: release position, physics model, orientation preview.
Orient ==
    /\ pc = "orient"
    /\ pos' = ReleasePosition(args["z0"])
    /\ steps' = Append(steps, "orient")
    /\ calls' = Append(calls, Call("DiscGolfDisc", disc_name, <<>>))
    /\ IF disc_name \notin Catalog
       THEN /\ Fail("UnknownDisc")
            /\ UNCHANGED <<meshes, stl_mesh>>
       ELSE /\ LET ref == deepcopy(disc_name)
                   copied == [meshes EXCEPT !["copy"] = meshes[disc_name]]
               IN  /\ stl_mesh' = ref
                   /\ meshes' = [copied EXCEPT
                                   ![ref] = rotate(@, args["nose"], args["roll"])]
            /\ pc' = "shoot"
            /\ UNCHANGED <<status, raised, active>>
    /\ UNCHANGED <<disc_selected, sliders, requests, disc_name, args, shot, sample,
                   summary, produced, physics, results>>

\* What the physics collaborator answers to the input key: what it answered
\* before, or, asked for the first time, any outcome.
Answers(key) == IF key \in DOMAIN physics THEN {physics[key]} ELSE Outcomes

Remember(memo, key, v) == IF key \in DOMAIN memo THEN memo ELSE (key :> v) @@ memo

ShootWithRetry ==
    /\ pc = "shoot"
    /\ steps' = Append(steps, "shoot")
    /\ LET key == ShootKey(disc_name, args, pos)
           call == Call("shoot", disc_name, ShootArgs(args, pos))
           again == Call("shoot", disc_name,
                         ShootArgs([s \in SliderNames |-> value(s)], pos))
       IN  \E o \in Answers(key) :
            /\ physics' = Remember(physics, key, o)
            /\ IF o.ok
               THEN /\ calls' = Append(calls, call)
                    /\ shot' = o.position
                    /\ pc' = "summary"
                    /\ UNCHANGED <<status, raised, active>>
               ELSE /\ calls' = calls \o <<call, again>>
                    /\ shot' = NoShot
                    /\ Fail(o.err)
    /\ UNCHANGED <<disc_selected, sliders, requests, disc_name, args, pos, meshes,
                   stl_mesh, sample, summary, produced, results>>

\* Lines 93-98: shoot on the physics model; its exception, if any, ends the run.
Shoot ==
    /\ pc = "shoot"
    /\ steps' = Append(steps, "shoot")
    /\ calls' = Append(calls, Call("shoot", disc_name, ShootArgs(args, pos)))
    /\ LET key == ShootKey(disc_name, args, pos)
       IN  \E o \in Answers(key) :
            /\ physics' = Remember(physics, key, o)
            /\ IF o.ok
               THEN /\ shot' = o.position
                    /\ pc' = "summary"
                    /\ UNCHANGED <<status, raised, active>>
               ELSE /\ shot' = NoShot
                    /\ Fail(o.err)
    /\ UNCHANGED <<disc_selected, sliders, requests, disc_name, args, pos, meshes,
                   stl_mesh, sample, summary, produced, results>>

\* x, y, z = shot.position and the remap: the arrays handed to get_plot.
Plotted ==
    LET new == AxisRemap(shot.x, shot.y)
    IN  [x |-> new[1], y |-> new[2], z |-> shot.z]

\* The plot and the metric table are written; the script goes on at next.
WriteTable(table, next) ==
    /\ pc = "summary"
    /\ steps' = Append(steps, "summary")
    /\ sample' = Plotted
    /\ summary' = table
    /\ results' = Remember(results, ShootKey(disc_name, args, pos), <<Plotted, table>>)
    /\ produced' = TRUE
    /\ pc' = next
    /\ UNCHANGED <<disc_selected, sliders, requests, active, disc_name, args, pos,
                   meshes, stl_mesh, shot, status, raised, calls, physics>>

SummarizeAccumulating ==
    LET now == FlightSummary(Plotted.x, Plotted.y, Plotted.z)
        far == IF summary.distance > now.distance THEN summary.distance
               ELSE now.distance
    IN  WriteTable([now EXCEPT !.distance = far], "post")

SummarizeTwice ==
    WriteTable(FlightSummary(Plotted.x, Plotted.y, Plotted.z),
               IF steps = <<"orient", "shoot">> THEN "summary" ELSE "post")

\* Lines 100-123: the axis remap, the trajectory plot and the metric table.
Summarize == WriteTable(FlightSummary(Plotted.x, Plotted.y, Plotted.z), "post")

\* Lines 125-128: the auxiliary series for the optional charts.
PostProcess ==
    /\ pc = "post"
    /\ steps' = Append(steps, "post")
    /\ calls' = Append(calls, Call("post_process", disc_name, <<args["omega"]>>))
    /\ \E ok \in BOOLEAN :
        IF ok
        THEN /\ status' = "ok"
             /\ pc' = "idle"
             /\ active' = active - 1
             /\ UNCHANGED raised
        ELSE Fail("ValueError")
    /\ UNCHANGED <<disc_selected, sliders, requests, disc_name, args, pos, meshes,
                   stl_mesh, shot, sample, summary, produced, physics, results>>

Next ==
    \/ SliderChange
    \/ DiscChange
    \/ Collect
    \/ Orient
    \/ Shoot
    \/ Summarize
    \/ PostProcess

Spec == Init /\ [][Next]_vars

----------------------------------------------------------------------------
\* The summary pipeline on its own: the first run, at the point where shoot
\* has returned, for every trajectory shoot may have returned.

SummaryInit ==
    /\ disc_selected = DefaultDisc
    /\ sliders = [s \in SliderNames |-> value(s)]
    /\ pc = "summary"
    /\ requests = 1
    /\ active = 1
    /\ disc_name = disc_names[DefaultDisc]
    /\ args = sliders
    /\ pos = ReleasePosition(args["z0"])
    /\ stl_mesh = deepcopy(disc_name)
    /\ meshes = [r \in MeshRefs |->
                    IF r = stl_mesh THEN rotate(PristineMesh, args["nose"], args["roll"])
                    ELSE PristineMesh]
    /\ shot \in Trajectories
    /\ sample = NoShot
    /\ summary = NoSummary
    /\ produced = FALSE
    /\ status = "running"
    /\ raised = "none"
    /\ calls = <<Call("DiscGolfDisc", disc_name, <<>>),
                 Call("shoot", disc_name, ShootArgs(args, pos))>>
    /\ steps = <<"orient", "shoot">>
    /\ physics = (ShootKey(disc_name, args, pos) :>
                     [ok |-> TRUE, position |-> shot, err |-> "none"])
    /\ results = <<>>

SummaryNext ==
    \/ Summarize
    \/ PostProcess

SummarySpec == SummaryInit /\ [][SummaryNext]_vars

----------------------------------------------------------------------------
\* Properties.

Abs(n) == IF n < 0 THEN -n ELSE n

\* m is the least (greatest) element of the array a.
IsMinimum(m, a) == (\E i \in DOMAIN a : a[i] = m) /\ (\A i \in DOMAIN a : a[i] >= m)
IsMaximum(m, a) == (\E i \in DOMAIN a : a[i] = m) /\ (\A i \in DOMAIN a : a[i] <= m)

\* d is v to two decimals: a multiple of 0.01 no further than 0.005 from v.
IsHundredthOf(d, v) == d % 10 = 0 /\ 2 * Abs(d - v) <= 10

\* The arrays x_new, y_new the claims speak of, from the shot as returned.
NewX == [i \in DOMAIN shot.y |-> 0 - shot.y[i]]
NewY == shot.x

\* C1 as stated: for a non-empty trajectory the metric table holds exactly
\* the minimum of new_x, the maximum of new_x, the maximum of z and the
\* maximum of new_y.
C1_ExactExtrema ==
    produced =>
        /\ IsMinimum(summary.drift_left, NewX)
        /\ IsMaximum(summary.drift_right, NewX)
        /\ IsMaximum(summary.max_height, shot.z)
        /\ IsMaximum(summary.distance, NewY)

\* C1 amended: each row of the metric table is the corresponding extremum
\* (minimum of new_x, maximum of new_x, maximum of z, maximum of new_y)
\* rounded to two decimals.
C1_RoundedExtrema ==
    produced =>
        /\ \E m \in Coords \cup {0 - c : c \in Coords} :
            IsMinimum(m, NewX) /\ IsHundredthOf(summary.drift_left, m)
        /\ \E m \in Coords \cup {0 - c : c \in Coords} :
            IsMaximum(m, NewX) /\ IsHundredthOf(summary.drift_right, m)
        /\ \E m \in Coords :
            IsMaximum(m, shot.z) /\ IsHundredthOf(summary.max_height, m)
        /\ \E m \in Coords :
            IsMaximum(m, NewY) /\ IsHundredthOf(summary.distance, m)

\* A summary of a longest trajectory whose extrema all differ from their
\* rounded values.
C1_Witness ==
    /\ produced
    /\ Len(shot.x) = MaxLen
    /\ ~IsMinimum(summary.drift_left, NewX)
    /\ ~IsMaximum(summary.drift_right, NewX)
    /\ ~IsMaximum(summary.max_height, shot.z)
    /\ ~IsMaximum(summary.distance, NewY)
    /\ summary.drift_left < summary.drift_right

\* C2: the plotted sample is the shot with every point (x, y, z) mapped to
\* (-y, x, z), point for point and in order, z untouched; the remap applied
\* twice gives (-x, -y, z).
C2_RemapIsQuarterTurn ==
    produced =>
        /\ Len(sample.x) = Len(shot.x)
        /\ Len(sample.y) = Len(shot.y)
        /\ Len(sample.z) = Len(shot.z)
        /\ \A i \in DOMAIN shot.x :
            /\ sample.x[i] = 0 - shot.y[i]
            /\ sample.y[i] = shot.x[i]
            /\ sample.z[i] = shot.z[i]
        /\ LET twice == AxisRemap(sample.x, sample.y)
           IN  \A i \in DOMAIN shot.x :
                /\ twice[1][i] = 0 - shot.x[i]
                /\ twice[2][i] = 0 - shot.y[i]

\* A remapped trajectory of more than one point, with distinct non-zero x and y.
C2_Witness ==
    /\ produced
    /\ Len(shot.x) > 1
    /\ shot.x[1] # shot.x[2]
    /\ shot.y[1] # 0 /\ shot.y[2] # 0 /\ shot.y[1] # shot.y[2]
    /\ shot.x[1] # shot.y[1]

\* C3 as stated: drift_left <= drift_right, equal only when new_x is
\* constant; max_height >= min(z); distance >= new_y at time 0.
C3_AsStated ==
    produced =>
        /\ summary.drift_left <= summary.drift_right
        /\ (summary.drift_left = summary.drift_right
                => \A i, j \in DOMAIN NewX : NewX[i] = NewX[j])
        /\ \E i \in DOMAIN shot.z : summary.max_height >= shot.z[i]
        /\ summary.distance >= NewY[1]

\* C3 amended: drift_left <= drift_right, equal only when all new_x values
\* round to the same hundredth; max_height >= min(z) rounded to two
\* decimals; distance >= new_y at time 0 rounded to two decimals.
C3_Rounded ==
    produced =>
        /\ summary.drift_left <= summary.drift_right
        /\ (summary.drift_left = summary.drift_right
                => \A i, j \in DOMAIN NewX : round(NewX[i], 2) = round(NewX[j], 2))
        /\ \E i \in DOMAIN shot.z : summary.max_height >= round(shot.z[i], 2)
        /\ summary.distance >= round(NewY[1], 2)

\* A summary whose drifts are equal over a new_x series that is not constant,
\* and whose distance is below new_y at time 0.
C3_Witness ==
    /\ produced
    /\ summary.drift_left = summary.drift_right
    /\ \E i, j \in DOMAIN NewX : NewX[i] # NewX[j]
    /\ summary.distance < NewY[1]

\* The shoot invocations of the current run.
ShootCalls == {i \in DOMAIN calls : calls[i].op = "shoot"}
ModelCalls == {i \in DOMAIN calls : calls[i].op = "DiscGolfDisc"}

\* The calls and locals on display belong to the widgets' current values
\* (between a change of a widget and the rerun reading it they are the
\* previous run's).
RunIsCurrent == pc # "collect"

\* C4: shoot is invoked on the model built for the identifier of the selected
\* disc, with speed, omega, pitch, nose_angle and roll_angle the values of
\* their sliders and position (0, 0, release height).
C4_ShootArguments ==
    RunIsCurrent =>
        \A i \in ShootCalls :
            /\ \E j \in ModelCalls : j < i /\ calls[j].disc = calls[i].disc
            /\ calls[i].disc = disc_names[disc_selected]
            /\ calls[i].args = <<sliders["U"], sliders["omega"], sliders["pitch"],
                                 <<0, 0, sliders["z0"]>>, sliders["nose"],
                                 sliders["roll"]>>

\* shoot was invoked after the disc and a slider were moved off their defaults.
C4_Witness ==
    /\ ShootCalls # {}
    /\ RunIsCurrent
    /\ disc_selected # DefaultDisc
    /\ sliders["nose"] # sliders["roll"]
    /\ sliders["z0"] # value("z0")

\* C5: a run with the same parameters and disc as an earlier run yields the
\* same trajectory sample and the same metric table as that run did,
\* whatever was requested in between.
C5_Deterministic ==
    (produced /\ RunIsCurrent) =>
        LET key == ShootKey(disc_names[disc_selected], sliders,
                            <<0, 0, sliders["z0"]>>)
        IN  key \in DOMAIN results /\ results[key] = <<sample, summary>>

\* The third run repeats the input of the first, after a second run with
\* another input and another table.
C5_Witness ==
    /\ requests = MaxRequests
    /\ pc = "post"
    /\ Cardinality(DOMAIN results) = MaxRequests - 1
    /\ Cardinality(DOMAIN physics) = MaxRequests - 1
    /\ \E k \in DOMAIN results : results[k][2] # summary

\* C6: when model construction or shoot fails, the run ends failed with the
\* collaborator's own exception, writes no metric table, has invoked the
\* model constructor and shoot at most once each, and invoked shoot with the
\* sliders' values.
C6_FailureIsTerminal ==
    (status = "failed" /\ steps # <<>> /\ steps[Len(steps)] \in {"orient", "shoot"}) =>
        /\ pc = "idle"
        /\ ~produced
        /\ sample = NoShot
        /\ Cardinality(ModelCalls) <= 1
        /\ Cardinality(ShootCalls) <= 1
        /\ \A i \in DOMAIN calls : calls[i].op # "post_process"
        /\ \A i \in ShootCalls :
            /\ calls[i].args = ShootArgs(sliders, <<0, 0, sliders["z0"]>>)
            /\ LET key == <<calls[i].disc, calls[i].args>>
               IN  key \in DOMAIN physics /\ ~physics[key].ok
                     /\ raised = physics[key].err

\* A run that failed in shoot, after a run that wrote a metric table.
C6_Witness ==
    /\ status = "failed"
    /\ steps = <<"orient", "shoot">>
    /\ raised \in ShootErrors
    /\ requests > 1
    /\ DOMAIN results # {}

\* The ranges the specification declares, in tenths.
DeclaredMin(s) ==
    CASE s = "U" -> 0 [] s = "omega" -> 0 [] s = "z0" -> 0 [] s = "pitch" -> 0
      [] s = "nose" -> -450 [] s = "roll" -> -900
DeclaredMax(s) ==
    CASE s = "U" -> 400 [] s = "omega" -> 2000 [] s = "z0" -> 20 [] s = "pitch" -> 900
      [] s = "nose" -> 900 [] s = "roll" -> 900
DeclaredDefault(s) ==
    CASE s = "U" -> 242 [] s = "omega" -> 1168 [] s = "z0" -> 13 [] s = "pitch" -> 155
      [] s = "nose" -> 0 [] s = "roll" -> 147

C7_InRange ==
    /\ \A s \in SliderNames :
        /\ DeclaredMin(s) <= sliders[s] /\ sliders[s] <= DeclaredMax(s)
        /\ DeclaredMin(s) <= args[s] /\ args[s] <= DeclaredMax(s)
    /\ requests = 1 => \A s \in SliderNames : sliders[s] = DeclaredDefault(s)

C7_OneAtATime ==
    \A s \in SliderNames :
        sliders'[s] # sliders[s] =>
            /\ \A o \in SliderNames \ {s} : sliders'[o] = sliders[o]
            /\ disc_selected' = disc_selected

\* C7: from the defaults on, every parameter stays in its declared closed
\* range, and a change of one parameter leaves every other parameter's value
\* as it was.
C7_RangesAndIndependence == []C7_InRange /\ [][C7_OneAtATime]_vars

\* Two sliders at opposite ends of their ranges, read by a run.
C7_Witness ==
    /\ sliders["z0"] = DeclaredMax("z0")
    /\ sliders["nose"] = DeclaredMin("nose")
    /\ args = sliders
    /\ pc = "orient"

C9_CacheUntouched ==
    /\ \A d \in Catalog : meshes[d] = PristineMesh
    /\ stl_mesh \notin Catalog

\* A second run has turned its copy of another disc's mesh.
C9_Witness ==
    /\ requests > 1
    /\ stl_mesh = "copy"
    /\ disc_name # disc_names[DefaultDisc]
    /\ meshes["copy"] # PristineMesh

FullRun == <<"orient", "shoot", "summary", "post">>

C10_InOrder ==
    /\ active \in {0, 1}
    /\ active = 0 <=> pc = "idle"
    /\ Len(steps) <= Len(FullRun)
    /\ \A i \in DOMAIN steps : steps[i] = FullRun[i]
    /\ (pc = "idle" /\ status = "ok") => steps = FullRun
    /\ pc = "idle" => status \in {"ok", "failed"}

C10_OnePerChange ==
    (sliders' # sliders \/ disc_selected' # disc_selected) =>
        /\ pc = "idle"
        /\ pc' = "collect"
        /\ requests' = requests + 1
        /\ active' = 1

====
